---- MODULE Spec2Model ----
(***************************************************************************)
(* Model of Export_Candidate_release.py: the Withings / ScanWatch GPX      *)
(* generator.  Raw run-length rows are decoded into time series, the GPS   *)
(* series are smoothed, and one GPX track is assembled per activity on the *)
(* heart-rate grid.                                                        *)
(*                                                                         *)
(* Time is counted in integer ticks, TicksPerSecond ticks to the second    *)
(* (datetime has sub-second resolution, durations are whole seconds).      *)
(* All timestamps are at or after the epoch.  Sample values are exact      *)
(* rationals [n, d]; IEEE-754 rounding of the Python floats is not         *)
(* modelled.                                                               *)
(***************************************************************************)
EXTENDS Integers, Sequences, FiniteSets, TLC

VARIABLES
    pc,               \* position of main()
    files,            \* the source directory: one raw file (or none) per signal
    act_rows,         \* rows of activities.csv
    activity_choice,  \* "ALL" or the selected activity type
    activities,       \* result of read_activities
    lat_data, lon_data, hr_data, temp_data, cadence_data,
    lat_smoothed, lon_smoothed,
    act_idx,          \* number of activities already handed to create_gpx_for_activity
    out_dir,          \* export_gpx: file name -> content of the file
    log,              \* sequence of create_gpx_for_activity outcomes of this run
    arg,              \* arguments of a function called on its own
    ret               \* its result

vars == <<pc, files, act_rows, activity_choice, activities, lat_data, lon_data,
          hr_data, temp_data, cadence_data, lat_smoothed, lon_smoothed,
          act_idx, out_dir, log, arg, ret>>

mainVars == <<pc, files, act_rows, activity_choice, activities, lat_data, lon_data,
              hr_data, temp_data, cadence_data, lat_smoothed, lon_smoothed,
              act_idx, out_dir, log>>

----------------------------------------------------------------------------
(* Bounds of the model *)

TicksPerSecond == 2
MaxRows == 2        \* rows per raw file
MaxLen == 3         \* samples per series given directly
MaxActs == 2        \* rows of activities.csv
MaxDay == 1         \* the date prompts take days 0..MaxDay

Anchors == 0..1         \* anchor of a row, first timestamp of a series (ticks)
Durations == 0..1       \* interval durations (seconds)
IntervalCounts == 0..2  \* (duration, value) pairs per row
SampleValues == 1..2    \* first value of a row; values of a series given directly
Gaps == 0..3            \* ticks between consecutive samples of a series
CadLens == 1..2         \* samples of a cadence series given directly
ActStarts == 0..2       \* activities start at these ticks
ActSpans == {0, 4}      \* and last this many ticks
SetMax(S) == CHOOSE x \in S : \A y \in S : y <= x

(* Constants of the program *)
SMOOTHING_WINDOW_SECONDS == 10
CADENCE_MAX_GAP_SECONDS == 60

----------------------------------------------------------------------------
(* Python values *)

None == [none |-> TRUE]
IsNone(x) == "none" \in DOMAIN x
Raised(e) == [raised |-> e]
IsRaised(x) == "raised" \in DOMAIN x

Min(a, b) == IF a <= b THEN a ELSE b
Abs(x) == IF x < 0 THEN -x ELSE x

RECURSIVE GCD(_, _)
GCD(a, b) == IF b = 0 THEN a ELSE GCD(b, a % b)

\* float values, held exactly as normalised fractions
Rat(n, d) ==
    LET s == IF d < 0 THEN -1 ELSE 1
        g == GCD(Abs(n), Abs(d))
    IN  [n |-> (s * n) \div g, d |-> (s * d) \div g]
RInt(k) == [n |-> k, d |-> 1]
RAdd(a, b) == Rat(a.n * b.d + b.n * a.d, a.d * b.d)
RSub(a, b) == Rat(a.n * b.d - b.n * a.d, a.d * b.d)
RMul(a, b) == Rat(a.n * b.n, a.d * b.d)
RDiv(a, b) == Rat(a.n * b.d, a.d * b.n)
RLt(a, b) == a.n * b.d < b.n * a.d
\* int(x): truncation toward zero
int(a) == IF a.n >= 0 THEN a.n \div a.d ELSE -((-a.n) \div a.d)

timedelta(seconds) == seconds * TicksPerSecond

TimeSeriesData(ts, vs) == [timestamps |-> ts, values |-> vs]

----------------------------------------------------------------------------
(* Raw rows.  A row is what csv.reader yields: nfields fields, of which    *)
(* the first three are kept here by what their text parses to.  ts.iso     *)
(* tells whether datetime.fromisoformat accepts the first field; durs and  *)
(* vals are the comma-separated, non-blank items of the bracketed lists,   *)
(* each of kind "int" ("5"), "dec" ("2.5") or "txt" ("abc").               *)

Item(kind, q) == [kind |-> kind, q |-> q]
IntItem(k) == Item("int", RInt(k))
Row(nfields, iso, t, durs, vals) ==
    [nfields |-> nfields, ts |-> [iso |-> iso, t |-> t], durs |-> durs, vals |-> vals]

\* int(x) raises ValueError unless the text is an integer literal
IntParses(items) == \A i \in DOMAIN items : items[i].kind = "int"
\* float(x) raises ValueError unless the text is a numeric literal
FloatParses(items) == \A i \in DOMAIN items : items[i].kind \in {"int", "dec"}

RECURSIVE SumDur(_, _)
SumDur(durs, k) == IF k = 0 THEN 0 ELSE SumDur(durs, k - 1) + timedelta(durs[k].q.n)

_parse_withings_row(row) ==
    IF row.nfields # 3 THEN <<>>                 \* unpacking raises ValueError
    ELSE IF ~row.ts.iso THEN <<>>                \* fromisoformat raises ValueError
    ELSE IF ~IntParses(row.durs) THEN <<>>
    ELSE IF ~FloatParses(row.vals) THEN <<>>
    ELSE [i \in 1..Min(Len(row.durs), Len(row.vals)) |->
            [ts |-> row.ts.t + SumDur(row.durs, i - 1),
             val |-> row.vals[i].q,
             dur |-> row.durs[i].q.n]]

\* list.sort(key=lambda x: x[0]): stable, by timestamp only
RECURSIVE InsertByTs(_, _)
InsertByTs(sorted, p) ==
    IF sorted = <<>> THEN <<p>>
    ELSE IF sorted[Len(sorted)].ts <= p.ts THEN Append(sorted, p)
    ELSE Append(InsertByTs(SubSeq(sorted, 1, Len(sorted) - 1), p), sorted[Len(sorted)])

SortByTs_dropped(points) == points

RECURSIVE SortByTs(_)
SortByTs(points) ==
    IF points = <<>> THEN <<>>
    ELSE InsertByTs(SortByTs(SubSeq(points, 1, Len(points) - 1)), points[Len(points)])

SeriesOf(points) ==
    TimeSeriesData([i \in 1..Len(points) |-> points[i].ts],
                   [i \in 1..Len(points) |-> points[i].val])

NoFile == [is_file |-> FALSE]
File(rows) == [is_file |-> TRUE, rows |-> rows]

RECURSIVE ExpandRows(_)
ExpandRows(rows) ==
    IF rows = <<>> THEN <<>>
    ELSE LET pts == _parse_withings_row(Head(rows))
         IN  [i \in 1..Len(pts) |-> [ts |-> pts[i].ts, val |-> pts[i].val]]
             \o ExpandRows(Tail(rows))

read_expanded_data(file) ==
    IF ~file.is_file THEN None
    ELSE LET all_points == ExpandRows(file.rows)
         IN  IF all_points = <<>> THEN None
             ELSE SeriesOf(SortByTs(all_points))

----------------------------------------------------------------------------
(* Temporal index: ordered search and the three lookups.  Indices are      *)
(* Python's (from 0); a[i] of the code is a[i + 1] here.                   *)

RECURSIVE BisectLeftLoop(_, _, _, _)
BisectLeftLoop(a, x, lo, hi) ==
    IF lo >= hi THEN lo
    ELSE LET mid == (lo + hi) \div 2
         IN  IF a[mid + 1] < x THEN BisectLeftLoop(a, x, mid + 1, hi)
             ELSE BisectLeftLoop(a, x, lo, mid)

RECURSIVE BisectRightLoop(_, _, _, _)
BisectRightLoop(a, x, lo, hi) ==
    IF lo >= hi THEN lo
    ELSE LET mid == (lo + hi) \div 2
         IN  IF x < a[mid + 1] THEN BisectRightLoop(a, x, lo, mid)
             ELSE BisectRightLoop(a, x, mid + 1, hi)

bisect_right(a, x) == BisectRightLoop(a, x, 0, Len(a))

bisect_left_as_right(a, x) == bisect_right(a, x)

bisect_left(a, x) == BisectLeftLoop(a, x, 0, Len(a))

\* timedelta.total_seconds()
total_seconds(ticks) == Rat(ticks, TicksPerSecond)

_interpolate_value(target_dt, data) ==
    IF IsNone(data) \/ data.timestamps = <<>> THEN None
    ELSE LET i == bisect_left(data.timestamps, target_dt)
         IN  IF i = 0 THEN data.values[1]
             ELSE IF i >= Len(data.timestamps) THEN data.values[Len(data.values)]
             ELSE LET t0 == data.timestamps[i]
                      v0 == data.values[i]
                      t1 == data.timestamps[i + 1]
                      v1 == data.values[i + 1]
                      dt_total == total_seconds(t1 - t0)
                  IN  IF dt_total = RInt(0) THEN v0
                      ELSE LET factor == RDiv(total_seconds(target_dt - t0), dt_total)
                           IN  RAdd(v0, RMul(RSub(v1, v0), factor))

NearestPick_earlier_on_tie(dt_prev, dt_curr) == ~RLt(dt_curr, dt_prev)

\* TRUE when the sample before the insertion point is taken
NearestPick(dt_prev, dt_curr) == RLt(dt_prev, dt_curr)

find_nearest_value(target_dt, data) ==
    IF IsNone(data) \/ data.timestamps = <<>> THEN None
    ELSE LET i == bisect_left(data.timestamps, target_dt)
         IN  IF i = 0 THEN data.values[1]
             ELSE IF i >= Len(data.timestamps) THEN data.values[Len(data.values)]
             ELSE LET dt_prev == total_seconds(target_dt - data.timestamps[i])
                      dt_curr == total_seconds(data.timestamps[i + 1] - target_dt)
                  IN  IF NearestPick(dt_prev, dt_curr) THEN data.values[i]
                      ELSE data.values[i + 1]

RECURSIVE sum(_)
sum(xs) == IF xs = <<>> THEN RInt(0) ELSE RAdd(sum(SubSeq(xs, 1, Len(xs) - 1)), xs[Len(xs)])

\* values already smoothed in this pass, then the input values not yet reached
WindowValues_in_place(data, smoothed_values, start_idx, end_idx) ==
    SubSeq(smoothed_values \o SubSeq(data.values, Len(smoothed_values) + 1, Len(data.values)),
           start_idx + 1, end_idx)

\* data.values[start_idx:end_idx]
WindowValues(data, smoothed_values, start_idx, end_idx) ==
    SubSeq(data.values, start_idx + 1, end_idx)

RECURSIVE SmoothLoop(_, _, _, _)
SmoothLoop(data, half_window, i, smoothed_values) ==
    IF i >= Len(data.timestamps) THEN smoothed_values
    ELSE LET t == data.timestamps[i + 1]
             start_time == t - half_window
             end_time == t + half_window
             start_idx == bisect_left(data.timestamps, start_time)
             end_idx == bisect_right(data.timestamps, end_time)
             window_values == WindowValues(data, smoothed_values, start_idx, end_idx)
             v == IF window_values = <<>> THEN data.values[i + 1]
                  ELSE RDiv(sum(window_values), RInt(Len(window_values)))
         IN  SmoothLoop(data, half_window, i + 1, Append(smoothed_values, v))

apply_temporal_smoothing(data, window_seconds) ==
    IF IsNone(data) \/ data.timestamps = <<>> THEN data
    ELSE LET half_window == (window_seconds * TicksPerSecond) \div 2
         IN  TimeSeriesData(data.timestamps, SmoothLoop(data, half_window, 0, <<>>))

----------------------------------------------------------------------------
(* Cadence deriver *)

\* one row of the cadence file: the points it adds, or the exception that
\* escapes the loop body
RECURSIVE CadencePoints(_, _, _)
CadencePoints(row, n, k) ==
    IF k > n THEN <<>>
    ELSE LET duration == row.durs[k].q.n
             end_of_interval == row.ts.t + SumDur(row.durs, k)
             cadence == RMul(RDiv(row.vals[k].q, RInt(duration)), RInt(60))
         IN  (IF duration > 0 THEN <<[ts |-> end_of_interval, val |-> cadence]>> ELSE <<>>)
             \o CadencePoints(row, n, k + 1)

CadenceRow(row) ==
    IF row.nfields = 0 THEN [raised |-> "IndexError", points |-> <<>>]   \* row[0]
    ELSE IF ~row.ts.iso THEN [raised |-> "ValueError", points |-> <<>>]  \* fromisoformat(row[0])
    ELSE IF row.nfields < 3 THEN [raised |-> "", points |-> <<>>]        \* row[1], row[2]: caught
    ELSE IF ~IntParses(row.durs) THEN [raised |-> "", points |-> <<>>]
    ELSE IF ~FloatParses(row.vals) THEN [raised |-> "", points |-> <<>>]
    ELSE [raised |-> "",
          points |-> CadencePoints(row, Min(Len(row.durs), Len(row.vals)), 1)]

RECURSIVE ExpandCadenceRows(_)
ExpandCadenceRows(rows) ==
    IF rows = <<>> THEN [raised |-> "", points |-> <<>>]
    ELSE LET r == CadenceRow(Head(rows))
         IN  IF r.raised # "" THEN r
             ELSE LET rest == ExpandCadenceRows(Tail(rows))
                  IN  [raised |-> rest.raised, points |-> r.points \o rest.points]

read_expanded_cadence_data(file) ==
    IF ~file.is_file THEN None
    ELSE LET r == ExpandCadenceRows(file.rows)
         IN  IF r.raised # "" THEN Raised(r.raised)
             ELSE IF r.points = <<>> THEN None
             ELSE SeriesOf(SortByTs(r.points))

----------------------------------------------------------------------------
(* GPX creation *)

\* nearest integer to r * scale, ties to even: f"{x:.6f}" and round(x, 2)
RoundScaled(r, scale) ==
    LET num == r.n * scale
        fl == IF num >= 0 THEN num \div r.d ELSE -(((-num) + r.d - 1) \div r.d)
        twice == 2 * (num - fl * r.d)
    IN  IF twice < r.d THEN fl
        ELSE IF twice > r.d THEN fl + 1
        ELSE IF fl % 2 = 0 THEN fl ELSE fl + 1

\* int(dt.timestamp()); also the seconds strftime prints
ts_int(dt) == dt \div TicksPerSecond

\* hr_points_in_activity: the loop of lines 272-277; last_ts_int None is -1,
\* which no timestamp at or after the epoch truncates to
RECURSIVE HrPointsLoop(_, _, _, _, _)
HrPointsLoop(hr_d, i, end_idx, last_ts_int, hr_points_in_activity) ==
    IF i >= end_idx THEN hr_points_in_activity
    ELSE LET dt == hr_d.timestamps[i + 1]
             hr == hr_d.values[i + 1]
             current_ts_int == ts_int(dt)
         IN  IF last_ts_int # current_ts_int
             THEN HrPointsLoop(hr_d, i + 1, end_idx, current_ts_int,
                               Append(hr_points_in_activity, [dt |-> dt, hr |-> hr]))
             ELSE HrPointsLoop(hr_d, i + 1, end_idx, last_ts_int, hr_points_in_activity)

EndIdx_exclusive(hr_d, end) == bisect_left(hr_d.timestamps, end)

EndIdx(hr_d, end) == bisect_right(hr_d.timestamps, end)

HrPointsInActivity(hr_d, activity) ==
    LET start_idx == bisect_left(hr_d.timestamps, activity.start)
        end_idx == EndIdx(hr_d, activity.end)
    IN  HrPointsLoop(hr_d, start_idx, end_idx, -1, <<>>)

CadenceFresh_strict(gap_ticks) ==
    RLt(total_seconds(gap_ticks), RInt(CADENCE_MAX_GAP_SECONDS))

\* (dt - last_cadence_dt).total_seconds() <= 60
CadenceFresh(gap_ticks) ==
    ~RLt(RInt(CADENCE_MAX_GAP_SECONDS), total_seconds(gap_ticks))

\* the gpxtpx:cad element of a track point: <<>> when none is attached
CadenceElement(dt, cad_d) ==
    IF IsNone(cad_d) THEN <<>>
    ELSE LET idx == bisect_right(cad_d.timestamps, dt)
         IN  IF idx > 0 /\ CadenceFresh(dt - cad_d.timestamps[idx])
             THEN <<int(cad_d.values[idx])>>
             ELSE <<>>

TempElement(dt, temp_d) ==
    IF IsNone(temp_d) THEN <<>>
    ELSE LET temp == find_nearest_value(dt, temp_d)
         IN  IF IsNone(temp) THEN <<>> ELSE <<RoundScaled(temp, 100)>>

\* the trkpt elements of the segment, in the order of hr_points_in_activity
RECURSIVE TrackPoints(_, _, _, _, _)
TrackPoints(points, lat_d, lon_d, temp_d, cad_d) ==
    IF points = <<>> THEN <<>>
    ELSE LET dt == Head(points).dt
             lat == _interpolate_value(dt, lat_d)
             lon == _interpolate_value(dt, lon_d)
             rest == TrackPoints(Tail(points), lat_d, lon_d, temp_d, cad_d)
         IN  IF IsNone(lat) \/ IsNone(lon) THEN rest
             ELSE <<[lat |-> RoundScaled(lat, 1000000),
                     lon |-> RoundScaled(lon, 1000000),
                     time |-> ts_int(dt),
                     hr |-> int(Head(points).hr),
                     atemp |-> TempElement(dt, temp_d),
                     cad |-> CadenceElement(dt, cad_d)]>> \o rest

\* activity_type.lower().replace(' ', '_')
safe_type(activity_type) ==
    CASE activity_type = "Run" -> "run"
      [] activity_type = "Night Walk" -> "night_walk"
      [] activity_type = "activity" -> "activity"

\* f"SW_{start.strftime('%Y%m%d_%H%M%S')}_{safe_type}.gpx"
FileName(activity, activity_type) ==
    [start |-> ts_int(activity.start), type |-> safe_type(activity_type)]

create_gpx_for_activity_always_writes(lat_d, lon_d, hr_d, temp_d, cad_d, activity, activity_type) ==
    LET hr_points_in_activity == HrPointsInActivity(hr_d, activity)
    IN  [hr_points |-> hr_points_in_activity,
         written |-> TRUE,
         fname |-> FileName(activity, activity_type),
         gpx |-> [name |-> activity_type,
                  trkseg |-> TrackPoints(hr_points_in_activity, lat_d, lon_d, temp_d, cad_d)]]

\* what one call does: the file it writes, if any
create_gpx_for_activity(lat_d, lon_d, hr_d, temp_d, cad_d, activity, activity_type) ==
    LET hr_points_in_activity == HrPointsInActivity(hr_d, activity)
    IN  IF hr_points_in_activity = <<>>
        THEN [hr_points |-> <<>>, written |-> FALSE, reported |-> "no heart rate data"]
        ELSE [hr_points |-> hr_points_in_activity,
              written |-> TRUE,
              fname |-> FileName(activity, activity_type),
              gpx |-> [name |-> activity_type,
                       trkseg |-> TrackPoints(hr_points_in_activity, lat_d, lon_d, temp_d, cad_d)]]

----------------------------------------------------------------------------
(* Activities *)

\* datetime.date(): the day a timestamp falls on
date(t) == t \div (86400 * TicksPerSecond)

\* the activity types of the rows, blank ones left out
get_unique_activity_types(rows) ==
    { rows[i].type : i \in { j \in DOMAIN rows : rows[j].type # "" } }

\* rows carry what their fields parse to: iso is FALSE when 'Début' or 'Fin'
\* is missing or is not an ISO timestamp
RECURSIVE read_activities(_, _, _, _)
read_activities(rows, activity_type_filter, start_date, end_date) ==
    IF rows = <<>> THEN <<>>
    ELSE LET row == Head(rows)
             rest == read_activities(Tail(rows), activity_type_filter, start_date, end_date)
             filter_all == activity_type_filter = "ALL"
         IN  IF ~filter_all /\ row.type # activity_type_filter THEN rest
             ELSE IF ~row.iso THEN rest
             ELSE IF start_date <= date(row.start) /\ date(row.start) <= end_date
                  THEN <<[start |-> row.start, end |-> row.end]>> \o rest
                  ELSE rest

----------------------------------------------------------------------------
(* Raw files the readers are run on *)

DurLists == UNION { [1..n -> {IntItem(d) : d \in Durations}] : n \in IntervalCounts }

GoodRows ==
    { Row(3, TRUE, a, durs, [i \in 1..Len(durs) |-> IntItem(base + i - 1)]) :
        a \in Anchors, durs \in DurLists, base \in SampleValues }

BadRows ==
    { Row(0, TRUE, 0, <<>>, <<>>),                                  \* blank line
      Row(1, TRUE, 0, <<>>, <<>>),                                  \* too few fields
      Row(1, FALSE, 0, <<>>, <<>>),
      Row(4, TRUE, 0, <<IntItem(1)>>, <<IntItem(1)>>),              \* too many fields
      Row(3, FALSE, 0, <<IntItem(1)>>, <<IntItem(1)>>),             \* unparseable anchor
      Row(3, TRUE, 0, <<Item("txt", RInt(0))>>, <<IntItem(1)>>),    \* non-numeric duration
      Row(3, TRUE, 0, <<Item("dec", Rat(3, 2))>>, <<IntItem(1)>>),  \* fractional duration
      Row(3, TRUE, 0, <<IntItem(1)>>, <<Item("txt", RInt(0))>>) }   \* non-numeric value

\* lists of unequal length: zip stops at the shorter
OddRows == { Row(3, TRUE, 0, <<IntItem(1), IntItem(1)>>, <<IntItem(1)>>) }

Rows == GoodRows \cup BadRows \cup OddRows
RawFiles == {NoFile} \cup { File(rows) : rows \in UNION { [1..n -> Rows] : n \in 0..MaxRows } }

Pending == [pending |-> TRUE]
IsPending(x) == "pending" \in DOMAIN x

MainIdle ==
    /\ pc = "idle" /\ files = <<>> /\ act_rows = <<>> /\ activity_choice = ""
    /\ activities = <<>> /\ lat_data = None /\ lon_data = None /\ hr_data = None
    /\ temp_data = None /\ cadence_data = None /\ lat_smoothed = None
    /\ lon_smoothed = None /\ act_idx = 0 /\ out_dir = <<>> /\ log = <<>>

InitRead ==
    /\ MainIdle
    /\ \E fn \in {"read_expanded_data", "read_expanded_cadence_data"}, file \in RawFiles :
          arg = [fn |-> fn, file |-> file]
    /\ ret = Pending

ReadData ==
    /\ arg.fn = "read_expanded_data" /\ IsPending(ret)
    /\ ret' = read_expanded_data(arg.file)
    /\ UNCHANGED <<mainVars, arg>>

ReadCadence ==
    /\ arg.fn = "read_expanded_cadence_data" /\ IsPending(ret)
    /\ ret' = read_expanded_cadence_data(arg.file)
    /\ UNCHANGED <<mainVars, arg>>

NextRead == ReadData \/ ReadCadence
SpecRead == InitRead /\ [][NextRead]_vars

----------------------------------------------------------------------------
(* Claims about the readers *)

WellFormed(row) ==
    /\ row.nfields = 3 /\ row.ts.iso
    /\ \A i \in DOMAIN row.durs : row.durs[i].kind = "int"
    /\ \A i \in DOMAIN row.vals : row.vals[i].kind \in {"int", "dec"}
    /\ Len(row.durs) = Len(row.vals)

Malformed(row) ==
    \/ row.nfields # 3 \/ ~row.ts.iso
    \/ \E i \in DOMAIN row.durs : row.durs[i].kind # "int"
    \/ \E i \in DOMAIN row.vals : row.vals[i].kind = "txt"

RECURSIVE Offset(_, _)
Offset(row, k) == IF k = 0 THEN 0 ELSE Offset(row, k - 1) + row.durs[k].q.n * TicksPerSecond

\* the points a well-formed row stands for (spec 3, RawEncodedRecord)
RowPoints(fn, row) ==
    IF fn = "read_expanded_data"
    THEN { <<row.ts.t + Offset(row, i - 1), row.vals[i].q>> : i \in DOMAIN row.durs }
    ELSE { <<row.ts.t + Offset(row, i),
             Rat(row.vals[i].q.n * 60, row.vals[i].q.d * row.durs[i].q.n)>> :
             i \in { j \in DOMAIN row.durs : row.durs[j].q.n # 0 } }

\* how many times the rows of a file stand for the point p
Expected(fn, rows, p) ==
    LET hits == { <<r, i>> \in (DOMAIN rows) \X (1..SetMax(IntervalCounts) + 1) :
                    /\ WellFormed(rows[r]) /\ i \in DOMAIN rows[r].durs
                    /\ (fn = "read_expanded_cadence_data" => rows[r].durs[i].q.n # 0)
                    /\ p = IF fn = "read_expanded_data"
                           THEN <<rows[r].ts.t + Offset(rows[r], i - 1), rows[r].vals[i].q>>
                           ELSE <<rows[r].ts.t + Offset(rows[r], i),
                                  Rat(rows[r].vals[i].q.n * 60,
                                      rows[r].vals[i].q.d * rows[r].durs[i].q.n)>> }
    IN  Cardinality(hits)

\* how many times a reader's result holds the point p
Held(result, p) ==
    IF IsNone(result) THEN 0
    ELSE Cardinality({ i \in DOMAIN result.timestamps :
                         <<result.timestamps[i], result.values[i]>> = p })

AllPoints(fn, rows) == UNION { RowPoints(fn, rows[r]) : r \in { k \in DOMAIN rows : WellFormed(rows[k]) } }

ResultPoints(result) ==
    IF IsNone(result) THEN {}
    ELSE { <<result.timestamps[i], result.values[i]>> : i \in DOMAIN result.timestamps }

ReadDone == arg.fn \in {"read_expanded_data", "read_expanded_cadence_data"} /\ ~IsPending(ret)
Classified(rows) == \A r \in DOMAIN rows : WellFormed(rows[r]) \/ Malformed(rows[r])

\* C1: both readers finish on every file of well-formed and malformed rows;
\* a malformed row adds no point and every point of every well-formed row
\* is in the result.
C1_SkipsMalformedRows ==
    (ReadDone /\ arg.file.is_file /\ Classified(arg.file.rows)) =>
        /\ ~IsRaised(ret)
        /\ \A p \in AllPoints(arg.fn, arg.file.rows) \cup ResultPoints(ret) :
              Held(ret, p) = Expected(arg.fn, arg.file.rows, p)

\* the part of C1 that holds: the run-length decoder alone
C1_DecoderSkipsMalformedRows ==
    (ReadDone /\ arg.fn = "read_expanded_data") => C1_SkipsMalformedRows

RowOrders(n) == { f \in [1..n -> 1..n] : \A i, j \in 1..n : f[i] = f[j] => i = j }
Shuffled(rows, f) == [i \in DOMAIN rows |-> rows[f[i]]]
NonDecreasing(ts) == \A i \in 1..Len(ts) - 1 : ts[i] <= ts[i + 1]
AllWellFormed(rows) == \A r \in DOMAIN rows : WellFormed(rows[r])
DecodeDone == ReadDone /\ arg.fn = "read_expanded_data" /\ arg.file.is_file
SameBag(a, b) == \A p \in ResultPoints(a) \cup ResultPoints(b) : Held(a, p) = Held(b, p)
TimestampsOf(result) == IF IsNone(result) THEN <<>> ELSE result.timestamps

\* two different records stand for points of equal timestamp and different value
TiedAcrossRows(rows) ==
    \E r, s \in DOMAIN rows : r # s /\
        \E p \in RowPoints("read_expanded_data", rows[r]),
           q \in RowPoints("read_expanded_data", rows[s]) : p[1] = q[1] /\ p[2] # q[2]

\* C7 as stated: every permutation of the well-formed records of a file is
\* decoded to the same sequence of (timestamp, value) pairs, and that
\* sequence is non-decreasing in timestamp.
C7_SameSequenceForEveryOrder ==
    (DecodeDone /\ AllWellFormed(arg.file.rows)) =>
        /\ NonDecreasing(TimestampsOf(ret))
        /\ \A f \in RowOrders(Len(arg.file.rows)) :
              read_expanded_data(File(Shuffled(arg.file.rows, f))) = ret

\* C7 amended: the result is non-decreasing in timestamp; every permutation
\* of the records gives the same timestamp sequence and the same points the
\* same number of times, and the very same sequence unless two different
\* records stand for points of equal timestamp and different value.
C7_SortedAndSameUpToTies ==
    (DecodeDone /\ AllWellFormed(arg.file.rows)) =>
        /\ NonDecreasing(TimestampsOf(ret))
        /\ \A f \in RowOrders(Len(arg.file.rows)) :
              LET other == read_expanded_data(File(Shuffled(arg.file.rows, f)))
              IN  /\ TimestampsOf(other) = TimestampsOf(ret)
                  /\ SameBag(other, ret)
                  /\ ~TiedAcrossRows(arg.file.rows) => other = ret

\* a file whose records are out of time order has been decoded
C7_Witness ==
    /\ DecodeDone /\ AllWellFormed(arg.file.rows) /\ Len(arg.file.rows) >= 2
    /\ ~TiedAcrossRows(arg.file.rows)
    /\ ~IsNone(ret) /\ Len(ret.timestamps) >= 3
    /\ arg.file.rows[1].ts.t > arg.file.rows[2].ts.t
    /\ ~NonDecreasing([i \in 1..Len(ExpandRows(arg.file.rows)) |-> ExpandRows(arg.file.rows)[i].ts])

----------------------------------------------------------------------------
(* The lookups run on series given directly.  A series is sorted, as every *)
(* series read_expanded_data returns is.                                   *)

RECURSIVE SumTo(_, _)
SumTo(g, k) == IF k = 0 THEN 0 ELSE SumTo(g, k - 1) + g[k]

SeriesOver(gaps) ==
    UNION { { TimeSeriesData([i \in 1..n |-> a + SumTo(g, i - 1)], vs) :
                a \in Anchors, g \in [1..n - 1 -> gaps],
                vs \in [1..n -> { RInt(v) : v \in SampleValues }] } : n \in 1..MaxLen }

HalfWindowTicks == (SMOOTHING_WINDOW_SECONDS * TicksPerSecond) \div 2
LookupSeries == SeriesOver(Gaps)
SmoothSeries == SeriesOver(Gaps \cup {HalfWindowTicks - 1, HalfWindowTicks, HalfWindowTicks + 1})
Targets == 0..(SetMax(Anchors) + (MaxLen - 1) * SetMax(Gaps) + 1)

InitLookup ==
    /\ MainIdle
    /\ ret = Pending
    /\ \/ \E fn \in {"_interpolate_value", "find_nearest_value"},
             data \in LookupSeries, t \in Targets :
                arg = [fn |-> fn, data |-> data, target_dt |-> t]
       \/ \E data \in SmoothSeries :
                arg = [fn |-> "apply_temporal_smoothing", data |-> data,
                       window_seconds |-> SMOOTHING_WINDOW_SECONDS]

Interpolate ==
    /\ arg.fn = "_interpolate_value" /\ IsPending(ret)
    /\ ret' = _interpolate_value(arg.target_dt, arg.data)
    /\ UNCHANGED <<mainVars, arg>>

Nearest ==
    /\ arg.fn = "find_nearest_value" /\ IsPending(ret)
    /\ ret' = find_nearest_value(arg.target_dt, arg.data)
    /\ UNCHANGED <<mainVars, arg>>

Smooth ==
    /\ arg.fn = "apply_temporal_smoothing" /\ IsPending(ret)
    /\ ret' = apply_temporal_smoothing(arg.data, arg.window_seconds)
    /\ UNCHANGED <<mainVars, arg>>

NextLookup == Interpolate \/ Nearest \/ Smooth
SpecLookup == InitLookup /\ [][NextLookup]_vars

----------------------------------------------------------------------------
(* Claims about the lookups *)

NearestDone == arg.fn = "find_nearest_value" /\ ~IsPending(ret)
InterpolateDone == arg.fn = "_interpolate_value" /\ ~IsPending(ret)
SmoothDone == arg.fn = "apply_temporal_smoothing" /\ ~IsPending(ret)

\* C8 as stated: for a target strictly between two adjacent samples the
\* nearest lookup returns the value of the closer sample, and the value of
\* the earlier sample when both are equally far.
C8_NearestTieToEarlier ==
    NearestDone =>
        \A i \in 1..Len(arg.data.timestamps) - 1 :
            LET before == arg.target_dt - arg.data.timestamps[i]
                after == arg.data.timestamps[i + 1] - arg.target_dt
            IN  (before > 0 /\ after > 0) =>
                    ret = IF before <= after THEN arg.data.values[i]
                          ELSE arg.data.values[i + 1]

\* C8 amended: ... the value of the closer sample, and the value of the
\* later sample when both are equally far.
C8_NearestTieToLater ==
    NearestDone =>
        \A i \in 1..Len(arg.data.timestamps) - 1 :
            LET before == arg.target_dt - arg.data.timestamps[i]
                after == arg.data.timestamps[i + 1] - arg.target_dt
            IN  (before > 0 /\ after > 0) =>
                    ret = IF before < after THEN arg.data.values[i]
                          ELSE arg.data.values[i + 1]

\* a target equally far from two adjacent samples of different value
C8_Witness ==
    /\ NearestDone
    /\ \E i \in 1..Len(arg.data.timestamps) - 1 :
          /\ arg.target_dt - arg.data.timestamps[i] > 0
          /\ arg.target_dt - arg.data.timestamps[i] = arg.data.timestamps[i + 1] - arg.target_dt
          /\ arg.data.values[i] # arg.data.values[i + 1]

\* C9 as stated: interpolating at the timestamp of any sample k returns the
\* value of sample k, also when k shares its timestamp with another sample.
C9_ExactAtEverySample ==
    InterpolateDone =>
        \A k \in DOMAIN arg.data.timestamps :
            arg.data.timestamps[k] = arg.target_dt => ret = arg.data.values[k]

\* C9 amended: interpolating at the timestamp of sample k returns the value
\* of the first sample of the series that carries that timestamp, which is
\* sample k unless an earlier sample shares its timestamp.
C9_ExactAtFirstOfTimestamp ==
    InterpolateDone =>
        \A k \in DOMAIN arg.data.timestamps :
            (/\ arg.data.timestamps[k] = arg.target_dt
             /\ \A j \in 1..k - 1 : arg.data.timestamps[j] # arg.target_dt)
                => ret = arg.data.values[k]

\* the target is the timestamp of two samples of different value that
\* follow an earlier sample
C9_Witness ==
    /\ InterpolateDone
    /\ \E k \in 2..Len(arg.data.timestamps) - 1 :
          /\ arg.data.timestamps[k] = arg.target_dt
          /\ arg.data.timestamps[k - 1] < arg.target_dt
          /\ arg.data.timestamps[k + 1] = arg.target_dt
          /\ arg.data.values[k - 1] # arg.data.values[k]
          /\ arg.data.values[k + 1] # arg.data.values[k]

InWindow(data, i) ==
    { j \in DOMAIN data.timestamps :
        /\ data.timestamps[j] >= data.timestamps[i] - 5 * TicksPerSecond
        /\ data.timestamps[j] <= data.timestamps[i] + 5 * TicksPerSecond }

RECURSIVE NumeratorSum(_, _)
NumeratorSum(values, S) ==
    IF S = {} THEN RInt(0)
    ELSE LET j == CHOOSE x \in S : TRUE
         IN  RAdd(values[j], NumeratorSum(values, S \ {j}))

MeanOf(values, S) ==
    LET total == NumeratorSum(values, S)
    IN  Rat(total.n, total.d * Cardinality(S))

\* C10: smoothing with the 10-second window returns a series of the same
\* timestamps and length whose value at each timestamp t is the mean of the
\* input values of the samples within [t - 5 s, t + 5 s], and leaves the
\* input series as it was.
C10_SmoothingIsOnePassMean ==
    [][(arg.fn = "apply_temporal_smoothing" /\ IsPending(ret) /\ ~IsPending(ret')) =>
          /\ arg' = arg
          /\ ret'.timestamps = arg.data.timestamps
          /\ Len(ret'.values) = Len(arg.data.values)
          /\ \A i \in DOMAIN arg.data.timestamps :
                ret'.values[i] = MeanOf(arg.data.values, InWindow(arg.data, i))]_vars

\* a smoothed series with a sample exactly 5 s after the first one (inside
\* its window) and a sample further away (outside it), of different values
C10_Witness ==
    /\ SmoothDone
    /\ Len(arg.data.timestamps) >= 3
    /\ \E j, k \in DOMAIN arg.data.timestamps :
          /\ arg.data.timestamps[j] - arg.data.timestamps[1] = 5 * TicksPerSecond
          /\ arg.data.timestamps[k] - arg.data.timestamps[1] > 5 * TicksPerSecond
          /\ arg.data.values[j] # arg.data.values[1]
    /\ ret.values # arg.data.values

----------------------------------------------------------------------------
(* create_gpx_for_activity run on series given directly *)

CutTicks == CADENCE_MAX_GAP_SECONDS * TicksPerSecond

\* heart-rate grids for the cadence cutoff; the values follow the position
HrGrids ==
    UNION { { TimeSeriesData([i \in 1..n |-> a + SumTo(g, i - 1)], [i \in 1..n |-> RInt(60 + i)]) :
                a \in Anchors,
                g \in [1..n - 1 -> Gaps \cup {CutTicks - 1, CutTicks, CutTicks + 1}] } :
            n \in 1..MaxLen }

CadValues == { Rat(60 * v, d) : v \in SampleValues, d \in {1, 7} }
CadSeries ==
    UNION { { TimeSeriesData([i \in 1..n |-> a + SumTo(g, i - 1)], vs) :
                a \in Anchors, g \in [1..n - 1 -> Gaps],
                vs \in [1..n -> CadValues] } : n \in CadLens }

FlatSeries == TimeSeriesData(<<0>>, <<RInt(45)>>)
WholeRun == [start |-> 0, end |-> SetMax(Anchors) + MaxLen * (CutTicks + 1)]
WindowTicks == 0..(SetMax(Anchors) + SetMax(Gaps) + 1)

InitGpx ==
    /\ MainIdle
    /\ ret = Pending
    /\ \/ \E hr \in HrGrids, cad \in CadSeries :
             arg = [fn |-> "create_gpx_for_activity", lat_data |-> FlatSeries,
                    lon_data |-> FlatSeries, hr_data |-> hr, temp_data |-> None,
                    cadence_data |-> cad, activity |-> WholeRun, activity_type |-> "Run"]
       \/ \E hr \in LookupSeries, start \in WindowTicks, end \in WindowTicks :
             arg = [fn |-> "create_gpx_for_activity", lat_data |-> FlatSeries,
                    lon_data |-> FlatSeries, hr_data |-> hr, temp_data |-> FlatSeries,
                    cadence_data |-> None, activity |-> [start |-> start, end |-> end],
                    activity_type |-> "activity"]

CreateGpx ==
    /\ arg.fn = "create_gpx_for_activity" /\ IsPending(ret)
    /\ ret' = create_gpx_for_activity(arg.lat_data, arg.lon_data, arg.hr_data, arg.temp_data,
                                      arg.cadence_data, arg.activity, arg.activity_type)
    /\ UNCHANGED <<mainVars, arg>>

NextGpx == CreateGpx
SpecGpx == InitGpx /\ [][NextGpx]_vars

GpxDone == arg.fn = "create_gpx_for_activity" /\ ~IsPending(ret)

\* the cadence samples at or before the time t, and the latest of them
AtOrBefore(cad, t) == { j \in DOMAIN cad.timestamps : cad.timestamps[j] <= t }
Latest(cad, t) ==
    CHOOSE j \in AtOrBefore(cad, t) :
        \A k \in AtOrBefore(cad, t) :
            cad.timestamps[k] < cad.timestamps[j] \/ (cad.timestamps[k] = cad.timestamps[j] /\ k <= j)

\* the kept heart-rate time of the k-th track point
PointTime(k) == ret.hr_points[k].dt

\* C5 as stated: a track point at heart-rate time T carries a cadence element
\* exactly when the cadence series has a sample at or before T whose latest
\* one is at most 60 s before T, and the element holds that sample's rate.
C5_CadenceIsLatestRate ==
    (GpxDone /\ ~IsNone(arg.cadence_data) /\ ret.written) =>
        \A k \in DOMAIN ret.gpx.trkseg :
            LET T == PointTime(k)
                cad == arg.cadence_data
                attach == /\ AtOrBefore(cad, T) # {}
                          /\ T - cad.timestamps[Latest(cad, T)] <= 60 * TicksPerSecond
            IN  /\ (ret.gpx.trkseg[k].cad # <<>>) <=> attach
                /\ attach => RInt(ret.gpx.trkseg[k].cad[1]) = cad.values[Latest(cad, T)]

\* C5 amended: ... and the element holds that sample's rate truncated to an
\* integer.
C5_CadenceIsLatestRateTruncated ==
    (GpxDone /\ ~IsNone(arg.cadence_data) /\ ret.written) =>
        \A k \in DOMAIN ret.gpx.trkseg :
            LET T == PointTime(k)
                cad == arg.cadence_data
                attach == /\ AtOrBefore(cad, T) # {}
                          /\ T - cad.timestamps[Latest(cad, T)] <= 60 * TicksPerSecond
                rate == cad.values[Latest(cad, T)]
            IN  /\ (ret.gpx.trkseg[k].cad # <<>>) <=> attach
                /\ attach => /\ ret.gpx.trkseg[k].cad[1] * rate.d <= rate.n
                             /\ rate.n < (ret.gpx.trkseg[k].cad[1] + 1) * rate.d

\* track points exactly 60 s after the latest cadence sample (attached) and
\* later than that (omitted), and one before the first cadence sample
C5_Witness ==
    /\ GpxDone /\ ~IsNone(arg.cadence_data) /\ ret.written
    /\ Len(ret.gpx.trkseg) = Len(ret.hr_points)
    /\ \E k \in DOMAIN ret.gpx.trkseg :
          /\ AtOrBefore(arg.cadence_data, PointTime(k)) # {}
          /\ PointTime(k) - arg.cadence_data.timestamps[Latest(arg.cadence_data, PointTime(k))]
                = 60 * TicksPerSecond
          /\ ret.gpx.trkseg[k].cad # <<>>
    /\ \E k \in DOMAIN ret.gpx.trkseg :
          /\ AtOrBefore(arg.cadence_data, PointTime(k)) # {}
          /\ ret.gpx.trkseg[k].cad = <<>>
    /\ \E k \in DOMAIN ret.gpx.trkseg : AtOrBefore(arg.cadence_data, PointTime(k)) = {}

\* the heart-rate samples inside the window, and the first of each second
InWindowHr(hr, act) ==
    { i \in DOMAIN hr.timestamps : act.start <= hr.timestamps[i] /\ hr.timestamps[i] <= act.end }
FirstOfSecond(hr, act) ==
    { i \in InWindowHr(hr, act) :
        \A j \in InWindowHr(hr, act) :
            hr.timestamps[j] \div TicksPerSecond = hr.timestamps[i] \div TicksPerSecond => i <= j }

\* C6: the retained heart-rate samples are the first sample of each whole
\* second among the samples with start <= timestamp <= end, in ascending
\* order; no two retained samples share a second and every second of the
\* window that has a sample keeps one.
C6_FirstSampleOfEachSecond ==
    GpxDone =>
        LET hr == arg.hr_data
            kept == ret.hr_points
            first == FirstOfSecond(hr, arg.activity)
        IN  /\ Len(kept) = Cardinality(first)
            /\ \A i \in first : \E k \in DOMAIN kept :
                  /\ kept[k] = [dt |-> hr.timestamps[i], hr |-> hr.values[i]]
                  /\ k = Cardinality({ j \in first : j <= i })
            /\ \A k, m \in DOMAIN kept :
                  k < m => kept[k].dt \div TicksPerSecond < kept[m].dt \div TicksPerSecond
            /\ \A i \in InWindowHr(hr, arg.activity) : \E k \in DOMAIN kept :
                  kept[k].dt \div TicksPerSecond = hr.timestamps[i] \div TicksPerSecond

\* a window that starts and ends on sample timestamps, holds two samples of
\* the same second with different values, and leaves a sample outside
C6_Witness ==
    /\ GpxDone /\ IsNone(arg.cadence_data)
    /\ \E i, j \in InWindowHr(arg.hr_data, arg.activity) :
          /\ i < j
          /\ arg.hr_data.timestamps[i] # arg.hr_data.timestamps[j]
          /\ arg.hr_data.timestamps[i] \div TicksPerSecond = arg.hr_data.timestamps[j] \div TicksPerSecond
          /\ arg.hr_data.values[i] # arg.hr_data.values[j]
    /\ \E i \in DOMAIN arg.hr_data.timestamps : arg.hr_data.timestamps[i] = arg.activity.end
    /\ \E i \in DOMAIN arg.hr_data.timestamps : arg.hr_data.timestamps[i] = arg.activity.start
    /\ InWindowHr(arg.hr_data, arg.activity) # DOMAIN arg.hr_data.timestamps
    /\ Len(ret.hr_points) = 1

----------------------------------------------------------------------------
(* main() *)

ActivityTypes == {"Run", "Night Walk"}
ActRows ==
    { [type |-> ty, iso |-> TRUE, start |-> st, end |-> st + len] :
        ty \in ActivityTypes, st \in ActStarts, len \in ActSpans }
    \cup { [type |-> "Run", iso |-> FALSE, start |-> 0, end |-> 0],
           [type |-> "", iso |-> TRUE, start |-> 0, end |-> SetMax(ActSpans)] }
ActivityFiles == UNION { [1..n -> ActRows] : n \in 0..MaxActs }

NoPoints == { NoFile, File(<<Row(3, FALSE, 0, <<IntItem(1)>>, <<IntItem(1)>>)>>) }
LatFiles == NoPoints \cup { File(<<Row(3, TRUE, 0, <<IntItem(2), IntItem(1)>>, <<IntItem(45), IntItem(47)>>)>>) }
LonFiles == NoPoints \cup { File(<<Row(3, TRUE, 0, <<IntItem(1)>>, <<IntItem(7)>>)>>) }
HrFiles ==
    NoPoints \cup { File(<<>>), File(<<Row(3, TRUE, 2, <<IntItem(1), IntItem(1)>>, <<IntItem(60), IntItem(61)>>)>>) }
TempFiles == { NoFile, File(<<Row(3, TRUE, 0, <<IntItem(1)>>, <<Item("dec", Rat(73, 2))>>)>>) }
CadFiles ==
    { NoFile,
      File(<<Row(3, TRUE, 0, <<IntItem(1)>>, <<IntItem(2)>>)>>),
      File(<<Row(3, TRUE, 0, <<IntItem(1)>>, <<IntItem(2)>>), Row(1, FALSE, 0, <<>>, <<>>)>>) }

Unread == [unread |-> TRUE]

Init ==
    /\ pc = "select"
    /\ act_rows \in ActivityFiles
    /\ files = [lat |-> Unread, lon |-> Unread, hr |-> Unread, temp |-> Unread, cadence |-> Unread]
    /\ activity_choice = ""
    /\ activities = <<>>
    /\ lat_data = None /\ lon_data = None /\ hr_data = None
    /\ temp_data = None /\ cadence_data = None
    /\ lat_smoothed = None /\ lon_smoothed = None
    /\ act_idx = 0
    /\ out_dir = {}
    /\ log = <<>>
    /\ arg = <<>> /\ ret = <<>>

\* lines 350-389: the type and date prompts, then read_activities
SelectActivities ==
    /\ pc = "select"
    /\ LET types == get_unique_activity_types(act_rows)
       IN  IF types = {}
           THEN /\ pc' = "exit_no_types"
                /\ UNCHANGED <<activity_choice, activities>>
           ELSE \E choice \in {"ALL"} \cup types, start_date \in 0..MaxDay, end_date \in 0..MaxDay :
                   /\ activity_choice' = choice
                   /\ activities' = read_activities(act_rows, choice, start_date, end_date)
                   /\ pc' = IF activities' = <<>> THEN "exit_no_activities" ELSE "read_required"
    /\ UNCHANGED <<files, act_rows, lat_data, lon_data, hr_data, temp_data, cadence_data,
                   lat_smoothed, lon_smoothed, act_idx, out_dir, log, arg, ret>>

\* KeyboardInterrupt at a prompt
Interrupt ==
    /\ pc = "select"
    /\ pc' = "interrupted"
    /\ UNCHANGED <<files, act_rows, activity_choice, activities, lat_data, lon_data, hr_data,
                   temp_data, cadence_data, lat_smoothed, lon_smoothed, act_idx, out_dir,
                   log, arg, ret>>

RequiredMissing_hr_only(lat, lon, hr) == IsNone(hr)

\* not (lat_data and lon_data and hr_data)
RequiredMissing(lat, lon, hr) == IsNone(lat) \/ IsNone(lon) \/ IsNone(hr)

\* lines 391-398
ReadRequired ==
    /\ pc = "read_required"
    /\ \E lat_file \in LatFiles, lon_file \in LonFiles, hr_file \in HrFiles :
          /\ files' = [files EXCEPT !.lat = lat_file, !.lon = lon_file, !.hr = hr_file]
          /\ lat_data' = read_expanded_data(lat_file)
          /\ lon_data' = read_expanded_data(lon_file)
          /\ hr_data' = read_expanded_data(hr_file)
    /\ pc' = IF RequiredMissing(lat_data', lon_data', hr_data')
             THEN "exit_missing_data" ELSE "read_optional"
    /\ UNCHANGED <<act_rows, activity_choice, activities, temp_data, cadence_data,
                   lat_smoothed, lon_smoothed, act_idx, out_dir, log, arg, ret>>

\* lines 400-401; an exception of the cadence reader ends the run
ReadOptional ==
    /\ pc = "read_optional"
    /\ \E temp_file \in TempFiles, cadence_file \in CadFiles :
          /\ files' = [files EXCEPT !.temp = temp_file, !.cadence = cadence_file]
          /\ temp_data' = read_expanded_data(temp_file)
          /\ LET r == read_expanded_cadence_data(cadence_file)
             IN  IF IsRaised(r)
                 THEN pc' = "crashed" /\ UNCHANGED cadence_data
                 ELSE pc' = "smoothing" /\ cadence_data' = r
    /\ UNCHANGED <<act_rows, activity_choice, activities, lat_data, lon_data, hr_data,
                   lat_smoothed, lon_smoothed, act_idx, out_dir, log, arg, ret>>

\* lines 403-405
SmoothGps ==
    /\ pc = "smoothing"
    /\ lat_smoothed' = apply_temporal_smoothing(lat_data, SMOOTHING_WINDOW_SECONDS)
    /\ lon_smoothed' = apply_temporal_smoothing(lon_data, SMOOTHING_WINDOW_SECONDS)
    /\ pc' = "activities"
    /\ UNCHANGED <<files, act_rows, activity_choice, activities, lat_data, lon_data, hr_data,
                   temp_data, cadence_data, act_idx, out_dir, log, arg, ret>>

\* tree.write(out_path): a file of the same name is replaced
Write(dir, fname, gpx) ==
    { f \in dir : f.fname # fname } \cup { [fname |-> fname, gpx |-> gpx] }

\* one turn of the loop of lines 408-413
ProcessActivity ==
    /\ pc = "activities"
    /\ act_idx < Len(activities)
    /\ LET act == activities[act_idx + 1]
           r == create_gpx_for_activity(lat_smoothed, lon_smoothed, hr_data, temp_data,
                    cadence_data, act,
                    IF activity_choice # "ALL" THEN activity_choice ELSE "activity")
       IN  /\ out_dir' = IF r.written THEN Write(out_dir, r.fname, r.gpx) ELSE out_dir
           /\ log' = Append(log, r)
    /\ act_idx' = act_idx + 1
    /\ UNCHANGED <<pc, files, act_rows, activity_choice, activities, lat_data, lon_data,
                   hr_data, temp_data, cadence_data, lat_smoothed, lon_smoothed, arg, ret>>

\* line 415
Finish ==
    /\ pc = "activities"
    /\ act_idx = Len(activities)
    /\ pc' = "done"
    /\ UNCHANGED <<files, act_rows, activity_choice, activities, lat_data, lon_data, hr_data,
                   temp_data, cadence_data, lat_smoothed, lon_smoothed, act_idx, out_dir,
                   log, arg, ret>>

Next ==
    \/ SelectActivities
    \/ Interrupt
    \/ ReadRequired
    \/ ReadOptional
    \/ SmoothGps
    \/ ProcessActivity
    \/ Finish

Spec == Init /\ [][Next]_vars

----------------------------------------------------------------------------
(* Claims about a run of main() *)

\* a raw file that is missing or stands for no point at all
Unusable(file) == ~file.is_file \/ AllPoints("read_expanded_data", file.rows) = {}
RequiredRead == "is_file" \in DOMAIN files.hr

\* C2: when the latitude, longitude or heart-rate file is missing or yields
\* no points, the run stops at the error report of line 397: no call of
\* create_gpx_for_activity is made and no GPX file is written.
C2_NoGpxWithoutRequiredData ==
    (RequiredRead /\ (Unusable(files.lat) \/ Unusable(files.lon) \/ Unusable(files.hr))) =>
        /\ pc = "exit_missing_data"
        /\ log = <<>>
        /\ out_dir = {}

\* the run stopped on a latitude file that is present but holds no point,
\* with heart-rate data and an activity that has samples in its window
C2_Witness ==
    /\ pc = "exit_missing_data"
    /\ files.lat.is_file /\ Unusable(files.lat)
    /\ ~Unusable(files.lon) /\ ~Unusable(files.hr)
    /\ \E i \in DOMAIN activities : InWindowHr(hr_data, activities[i]) # {}

EmptyActivity(i) == InWindowHr(hr_data, activities[i]) = {}
NonEmptyActivities == { i \in DOMAIN activities : ~EmptyActivity(i) }

\* C3: at the end of a run that reached the loop there are as many GPX files
\* as selected activities with a heart-rate sample in their window, and the
\* file of each such activity is still the one written for it.
C3_OneFilePerNonEmptyActivity ==
    pc = "done" =>
        /\ Cardinality(out_dir) = Cardinality(NonEmptyActivities)
        /\ \A i \in NonEmptyActivities :
              [fname |-> log[i].fname, gpx |-> log[i].gpx] \in out_dir

\* what holds instead: one file per distinct start second of the non-empty
\* activities, holding the track of the last of them
C3_OneFilePerStartSecond ==
    pc = "done" =>
        /\ Cardinality(out_dir) =
              Cardinality({ activities[i].start \div TicksPerSecond : i \in NonEmptyActivities })
        /\ \A i \in NonEmptyActivities :
              (\A j \in NonEmptyActivities :
                  activities[j].start \div TicksPerSecond = activities[i].start \div TicksPerSecond
                      => j <= i)
              => [fname |-> log[i].fname, gpx |-> log[i].gpx] \in out_dir

\* C4: an activity without a heart-rate sample in its window writes no file
\* and leaves the loop running on the same series and the same list; at the
\* end of the run every activity has had its turn and every non-empty one
\* has written.
C4_EmptyActivityIsSkipped ==
    /\ [][(pc = "activities" /\ act_idx < Len(activities) /\ EmptyActivity(act_idx + 1)) =>
             /\ out_dir' = out_dir
             /\ pc' = "activities"
             /\ act_idx' = act_idx + 1
             /\ UNCHANGED <<activities, hr_data, lat_smoothed, lon_smoothed, temp_data,
                            cadence_data, lat_data, lon_data>>]_vars
    /\ [](pc = "done" =>
             /\ Len(log) = Len(activities)
             /\ \A i \in DOMAIN activities : log[i].written <=> ~EmptyActivity(i))

\* a finished run in which an empty activity came before one that wrote
C4_Witness ==
    /\ pc = "done"
    /\ \E i, j \in DOMAIN activities :
          /\ i < j /\ EmptyActivity(i) /\ ~EmptyActivity(j)
          /\ log[j].written
          /\ \E f \in out_dir : f.fname = log[j].fname

====
